---- MODULE Spec2Model ----
(***************************************************************************)
(* State-machine model of the BLE tooling:                                 *)
(*   ble_scanner.py     bulk scan report (scan_ble_devices) and the        *)
(*                      single-device detail flow (get_device_info),       *)
(*                      both started by main();                            *)
(*   disconnect_ble.py  the bulk connect-enumerate-disconnect pass         *)
(*                      (scan_and_disconnect_devices).                     *)
(* One run of the model is one invocation of one entry point.  The radio   *)
(* stack (bleak) is the environment: it delivers advertisement events      *)
(* while a scan is active, accepts or refuses connections, and the         *)
(* operator may interrupt the run at any point.                            *)
(***************************************************************************)
EXTENDS Integers, Sequences, FiniteSets, TLC

\* ------------------------------------------------------------------ bounds
\* Number of advertisement events delivered during one scan window (three
\* let an identity be seen, another follow, and the first be seen again).
MaxEvents == 3

\* ---------------------------------------------------------- input domains
\* Addresses are sequences of characters, so that str.lower() is modelled
\* by what it does to each character.
AdvertisedAddrs == { <<"A", "1">>, <<"b", "2">> }
RequestAddrs == { <<"A", "1">>, <<"a", "1">>, <<"B", "2">>, <<"b", "2">>, <<"d", "4">> }
\* device.name is None or a string
DeviceNames == { "None", "Tag" }
RSSIs == { -80, -60 }
Thresholds == { -80, -60 }

\* An advertisement event: the (device, advertisement_data) pair handed to
\* a detection callback.
Events == [address : AdvertisedAddrs, name : DeviceNames, rssi : RSSIs]

\* The events fed to entry point p.  disconnect_ble.py reads the name and the
\* address of a discovered device and nothing else (lines 18, 22), so its
\* events are drawn with one signal strength.
EventsOf(p) == IF p = "bulk" THEN { ev \in Events : ev.rssi = -60 } ELSE Events

\* ------------------------------------------------------------ str.lower()
UpperLower == { <<"A", "a">>, <<"B", "b">>, <<"C", "c">>, <<"D", "d">> }

LowerChar(c) ==
  IF \E p \in UpperLower : p[1] = c
  THEN (CHOOSE p \in UpperLower : p[1] = c)[2]
  ELSE c

Lower(s) == [i \in DOMAIN s |-> LowerChar(s[i])]

\* `x or "Unknown"`: None and the empty string are falsy
OrUnknown(n) == IF n = "None" \/ n = "" THEN "Unknown" ELSE n

\* ------------------------------------------------------------ dict (ordered)
\* A Python dict keyed by address is a sequence of entries in insertion
\* order; assignment d[k] = v replaces the value in place when k is present
\* and appends otherwise.
HasKey(d, k) == \E i \in DOMAIN d : d[i].address = k

\* an assignment that deletes the old entry and inserts the new one at the end
DictSet_move_to_end(d, e) ==
  SelectSeq(d, LAMBDA x : x.address # e.address) \o << e >>

DictSet(d, e) ==
  IF HasKey(d, e.address)
  THEN [i \in DOMAIN d |-> IF d[i].address = e.address THEN e ELSE d[i]]
  ELSE Append(d, e)

\* ------------------------------------------------- detection callbacks
\* scan_ble_devices.detection_callback: discovered_devices[device.address] = {...}
detection_callback_keep_first(discovered, ev) ==
  IF HasKey(discovered, ev.address)
  THEN discovered
  ELSE Append(discovered, [address |-> ev.address, name |-> OrUnknown(ev.name), rssi |-> ev.rssi])

detection_callback(discovered, ev) ==
  DictSet(discovered, [address |-> ev.address, name |-> OrUnknown(ev.name), rssi |-> ev.rssi])

\* BleakScanner.discover keeps the last device seen per address and returns
\* them as a list.
discover_callback(discovered, ev) == DictSet(discovered, ev)

\* get_device_info.detection_callback: the comparison of line 18
address_matches_exact(device_address, address) == device_address = address

address_matches(device_address, address) == Lower(device_address) = Lower(address)

\* get_device_info.detection_callback: device_found is None (<<>>) or the
\* last matching (device, advertisement_data) pair (<<ev>>)
locate_callback(found, ev, address) ==
  IF address_matches(ev.address, address) THEN <<ev>> ELSE found

\* The callback folded over a whole advertisement stream.
RECURSIVE Locate(_, _)
Locate(stream, address) ==
  IF stream = <<>> THEN <<>>
  ELSE locate_callback(Locate(SubSeq(stream, 1, Len(stream) - 1), address),
                       stream[Len(stream)], address)

\* ------------------------------------------------------------- output lines
\* Every printed line is a record of the same shape.
Line(msg, addr, name, num) == [msg |-> msg, addr |-> addr, name |-> name, num |-> num]
Msg(msg) == Line(msg, <<>>, "", 0)

\* ------------------------------------------------------ RSSI filter, report
RECURSIVE filter_rec_inclusive(_, _)
filter_rec_inclusive(d, thr) ==
  IF d = <<>> THEN <<>>
  ELSE (IF d[1].rssi >= thr THEN <<d[1]>> ELSE <<>>) \o filter_rec_inclusive(Tail(d), thr)

\* the filter of line 116 with >= in place of >
filter_devices_inclusive(discovered, dbm_max) == filter_rec_inclusive(discovered, dbm_max)

RECURSIVE filter_rec(_, _)
filter_rec(d, thr) ==
  IF d = <<>> THEN <<>>
  ELSE (IF d[1].rssi > thr THEN <<d[1]>> ELSE <<>>) \o filter_rec(Tail(d), thr)

\* line 116: {addr: info for addr, info in ... if info['rssi'] > dbm_max}
filter_devices(discovered, dbm_max) == filter_rec(discovered, dbm_max)

DeviceLines(f) == [i \in DOMAIN f |-> Line("Device", f[i].address, f[i].name, f[i].rssi)]

\* lines 112-146 without the empty-set branch of line 112
report_no_empty_check(discovered, dbm_max) ==
  LET filtered == filter_devices(discovered, dbm_max) IN
  IF filtered = <<>>
  THEN << Line("No BLE devices found with RSSI >", <<>>, "", Len(discovered)) >>
  ELSE << Line("Found", <<>>, "", Len(filtered)) >> \o DeviceLines(filtered)
       \o << Msg("Scan complete.") >>

\* lines 112-146 of scan_ble_devices
report(discovered, dbm_max) ==
  IF discovered = <<>>
  THEN << Msg("No BLE devices found.") >>
  ELSE LET filtered == filter_devices(discovered, dbm_max) IN
       IF filtered = <<>>
       THEN << Line("No BLE devices found with RSSI >", <<>>, "", Len(discovered)) >>
       ELSE << Line("Found", <<>>, "", Len(filtered)) >> \o DeviceLines(filtered)
            \o << Msg("Scan complete.") >>

\* ---------------------------------------------------- GATT service trees
\* What client.services exposes for each peripheral, in the stack's order:
\* services, their characteristics, their descriptors.
GattServices(addr) ==
  IF Lower(addr) = <<"a", "1">> THEN
    << [uuid |-> "180a",
        characteristics |-> << [uuid |-> "2a29", descriptors |-> << "2902" >>],
                               [uuid |-> "2a24", descriptors |-> << >>] >>],
       [uuid |-> "180f",
        characteristics |-> << [uuid |-> "2a19", descriptors |-> << "2902", "2904" >>] >>] >>
  ELSE IF Lower(addr) = <<"b", "2">> THEN
    << [uuid |-> "1800", characteristics |-> << >>] >>
  ELSE << >>

\* lines 76-78 of ble_scanner.py
walk_descriptors(ds) == [i \in DOMAIN ds |-> Line("Descriptor", <<>>, ds[i], 0)]

\* lines 71-78 of ble_scanner.py; lines 29-30 of disconnect_ble.py print
\* the characteristics only (with_descriptors = FALSE)
RECURSIVE walk_characteristics(_, _)
walk_characteristics(cs, with_descriptors) ==
  IF cs = <<>> THEN <<>>
  ELSE << Line("Characteristic", <<>>, cs[1].uuid, 0) >>
       \o (IF with_descriptors THEN walk_descriptors(cs[1].descriptors) ELSE <<>>)
       \o walk_characteristics(Tail(cs), with_descriptors)

\* lines 67-78 of ble_scanner.py, lines 27-30 of disconnect_ble.py
RECURSIVE walk_services(_, _)
walk_services(ss, with_descriptors) ==
  IF ss = <<>> THEN <<>>
  ELSE << Line("Service", <<>>, ss[1].uuid, 0) >>
       \o walk_characteristics(ss[1].characteristics, with_descriptors)
       \o walk_services(Tail(ss), with_descriptors)

\* ------------------------------------------------------------------- state
VARIABLES
  argv,                \* the command line of ble_scanner.py: options given and their values
  prog,                \* entry point: "cli" (ble_scanner.py before parsing), then "scan" or
                       \* "detail"; "bulk" (disconnect_ble.py)
  address,             \* args.address of the detail flow (<<>> otherwise)
  dbm_max,             \* args.dbm_max
  scan_time,           \* args.scan_time
  pc,                  \* position of the coroutine
  radio,               \* "unknown", "ok" or "unavailable": outcome of starting the scan
  scanning,            \* the radio scan is active
  subscriptions,       \* the scanners whose advertisement subscription is active
  events,              \* advertisement events delivered so far, in arrival order
  discovered_devices,  \* the collected set (ordered dict)
  device_found,        \* get_device_info: <<>> (None) or <<last matching event>>
  devices,             \* scan_and_disconnect_devices: the list discover() returned
  idx,                 \* index of the device being introspected
  session_open,        \* inside `async with BleakClient(...)`: a disconnect is owed
  is_connected,        \* client.is_connected
  dev_state,           \* per device: Idle, Connecting, Connected, Disconnected, ConnectFailed
  faults,              \* per device: "none", "connect", "enumerate"
  trees,               \* per device: the lines its service walk printed (header included)
  walks,               \* client.is_connected at the start of each service walk
  out,                 \* the lines printed, in order
  exit_status,         \* "running", "0", "1", "2", "SIGINT"
  interrupted          \* SIGINT was received

vars == << argv, prog, address, dbm_max, scan_time, pc, radio, scanning, subscriptions,
           events, discovered_devices,
           device_found, devices, idx, session_open, is_connected, dev_state, faults,
           trees, walks, out, exit_status, interrupted >>

arg_vars == << argv, prog, address, dbm_max, scan_time >>
scan_vars == << events, discovered_devices, device_found >>
conn_vars == << session_open, is_connected, dev_state, faults, trees, walks, idx >>

\* The default of --dbm-max
DefaultDbmMax == -80

\* The default of --scan-time
DefaultScanTime == 5

\* Values given to --scan-time
ScanTimes == { 5, 10 }

Options == { "address", "scan_time", "dbm_max" }

\* No option given: every value is its default (args.address is None).
NoArgs ==
  [given |-> {}, address |-> <<>>, scan_time |-> DefaultScanTime, dbm_max |-> DefaultDbmMax]

\* The address of the command lines that give --address with other options.
CombinedAddr == << "a", "1" >>

\* The command lines: any subset of the three options, each with a value;
\* an address given alone takes every spelling, an address given with other
\* options (a usage error, or a run that the same address alone has too) is
\* CombinedAddr.
Argvs ==
  { a \in [given : SUBSET Options, address : RequestAddrs \cup { <<>> },
            scan_time : ScanTimes \cup { DefaultScanTime },
            dbm_max : Thresholds \cup { DefaultDbmMax }] :
      /\ ("address" \in a.given) <=> (a.address # <<>>)
      /\ ("address" \in a.given /\ a.given # { "address" }) => (a.address = CombinedAddr)
      /\ ("scan_time" \notin a.given) => (a.scan_time = DefaultScanTime)
      /\ ("dbm_max" \notin a.given) => (a.dbm_max = DefaultDbmMax) }

\* The options argparse counts as seen: it counts an option only when the
\* parsed value `is not` the default object.  int("5") is the cached small
\* integer that is also the default of --scan-time, so `--scan-time 5` is not
\* counted; int("-80") is a fresh object, so `--dbm-max -80` is counted; an
\* address string is never the default None.
seen_non_default(a) ==
  { o \in a.given : o = "scan_time" => a.scan_time # DefaultScanTime }

\* parser.parse_args(): --address, --scan-time and --dbm-max are the members
\* of one mutually exclusive group (lines 162-179), so two of them seen on
\* one command line are a usage error.
parse_args(a) ==
  [ok |-> Cardinality(seen_non_default(a)) <= 1,
   address |-> a.address, scan_time |-> a.scan_time, dbm_max |-> a.dbm_max]

\* lines 184-189: args.address selects the detail flow
mode_of(args) == IF args.address # <<>> THEN "detail" ELSE "scan"

\* The scanner each flow creates and starts: get_device_info lines 22-23,
\* scan_ble_devices lines 107-108, BleakScanner.discover.
scanners_of_both(p) == IF p = "bulk" THEN { "discover" } ELSE { "locator", "collector" }

scanners_of(p) ==
  IF p = "detail" THEN { "locator" }
  ELSE IF p = "scan" THEN { "collector" } ELSE { "discover" }

Init ==
  /\ prog \in { "cli", "bulk" }
  /\ argv \in (IF prog = "cli" THEN Argvs ELSE { NoArgs })
  /\ address = <<>>
  /\ dbm_max = DefaultDbmMax
  /\ scan_time = DefaultScanTime
  /\ pc = (IF prog = "cli" THEN "parse" ELSE "start")
  /\ radio = "unknown"
  /\ scanning = FALSE
  /\ subscriptions = {}
  /\ events = <<>>
  /\ discovered_devices = <<>>
  /\ device_found = <<>>
  /\ devices = <<>>
  /\ idx = 0
  /\ session_open = FALSE
  /\ is_connected = FALSE
  /\ dev_state = <<>>
  /\ faults = <<>>
  /\ trees = <<>>
  /\ walks = <<>>
  /\ out = <<>>
  /\ exit_status = "running"
  /\ interrupted = FALSE

\* ------------------------------------------------- scoped release, handlers
\* BleakClient.__aexit__ without the guarantee: a disconnect on the normal
\* path only.
aexit_normal_only(how, open) == IF how = "normal" THEN FALSE ELSE open

\* `async with BleakClient(...)`: leaving the block disconnects, however the
\* block is left ("normal", "exception", "cancel").
aexit(how, open) == FALSE

\* The scan as the stack unwinds through an active scan.  scan_ble_devices
\* and get_device_info call scanner.stop() only after the sleep, with no
\* finally; BleakScanner.discover holds the scanner in its own context
\* manager.
scan_after_unwind(p, active) == IF p = "bulk" THEN FALSE ELSE active

\* Whether main's try (ble_scanner.py lines 183-189) covers the code running
\* at position `at` of entry point p: parser.parse_args() (line 181, p =
\* "cli") runs before it, the body of its `except Exception` handler (lines
\* 194-195) after it, and disconnect_ble.main has no try at all.
in_try(p, at) == p \in { "scan", "detail" } /\ at \notin { "handler", "reported" }

\* What ends the process when `exc` ("KeyboardInterrupt", "Exception" or
\* "none") is raised in main, covered by its try or not: the handlers of
\* ble_scanner.main (lines 190-195) print one line and exit; an exception
\* nothing handles ends the process with a traceback.
main_exit(covered, exc) ==
  IF exc = "none" THEN [status |-> "0", lines |-> << >>]
  ELSE IF ~covered
       THEN [status |-> (IF exc = "KeyboardInterrupt" THEN "SIGINT" ELSE "1"),
             lines |-> << >>]
       ELSE IF exc = "KeyboardInterrupt"
            THEN [status |-> "0", lines |-> << Msg("Scan interrupted by user") >>]
            ELSE [status |-> "1", lines |-> << Msg("Error") >>]

\* The exception leaving get_device_info when `exc` is raised inside its
\* outer try: `except Exception` absorbs it and the coroutine returns.
get_device_info_outer(exc) ==
  IF exc = "Exception"
  THEN [exc |-> "none", lines |-> << Msg("Error getting device information") >>]
  ELSE [exc |-> exc, lines |-> << >>]

\* the bulk loop giving up at the first device that fails
on_device_exception_abort(i, n) == 0

\* disconnect_ble.py lines 35-38: the handler prints and the loop goes on;
\* the index of the next device, 0 when the list is exhausted
on_device_exception(i, n) == IF i < n THEN i + 1 ELSE 0

\* disconnect_ble.py line 17: the loop after a device completed
for_next(i, n) == IF i < n THEN i + 1 ELSE 0

DeviceHeader(d) == Line("Device:", d.address, OrUnknown(d.name), 0)

\* The positions at which main's own code runs, outside the event loop:
\* before asyncio.run (parse_args, the call itself) and once the task has
\* ended with an exception (asyncio.run raising it, the handler of lines
\* 193-195).
MainPcs == { "parse", "start", "raised", "handler", "reported" }

\* The positions at which the task is suspended in an await, or reaches it
\* next: scanner.start() / discover(), the sleep and scanner.stop(), connect()
\* inside __aenter__, disconnect() inside __aexit__.
AwaitPcs == { "starting", "scanning", "connecting", "exiting" }

\* How the end of the coroutine ends the run: asyncio.run's SIGINT handler
\* only requests the cancellation of the main task, so a coroutine that
\* returns with the request still pending ends as a cancelled task and
\* asyncio.run raises KeyboardInterrupt; a coroutine that ends by raising
\* `exc` hands that exception to asyncio.run, request pending or not.
on_return(exc) == IF exc = "none" /\ interrupted THEN "KeyboardInterrupt" ELSE exc

\* The process ends: status and final lines.
Terminate(exc, lines) ==
  LET m == main_exit(in_try(prog, pc), exc) IN
  /\ pc' = "done"
  /\ exit_status' = m.status
  /\ out' = out \o lines \o m.lines

\* The task ends after printing `lines`.  A task that ends cancelled leaves
\* the event loop to asyncio.run's teardown before KeyboardInterrupt is raised
\* in main; any other end is followed through to the end of the process.
TaskEnds(exc, lines) ==
  IF exc = "KeyboardInterrupt"
  THEN /\ pc' = "cancelled"
       /\ out' = out \o lines
       /\ UNCHANGED exit_status
  ELSE Terminate(exc, lines)

\* The lines printed before the scan starts: ble_scanner.py line 92, lines 8
\* and 12; disconnect_ble.py line 8.
banner(p) ==
  IF p = "scan" THEN << Line("Starting BLE scan", <<>>, "", scan_time) >>
  ELSE IF p = "detail"
       THEN << Line("Getting detailed information for device:", address, "", 0),
               Msg("Scanning for device...") >>
       ELSE << Msg("Scanning for BLE devices...") >>

\* -------------------------------------------------------------- the scan
\* main lines 181-189: the command line is parsed and the mode chosen; a
\* usage error ends the process with status 2.
ParseArgs ==
  /\ pc = "parse"
  /\ LET args == parse_args(argv) IN
     IF args.ok
     THEN /\ prog' = mode_of(args)
          /\ address' = args.address
          /\ dbm_max' = args.dbm_max
          /\ scan_time' = args.scan_time
          /\ pc' = "start"
          /\ UNCHANGED << out, exit_status >>
     ELSE /\ pc' = "done"
          /\ exit_status' = "2"
          /\ out' = out \o << Msg("usage: not allowed with argument") >>
          /\ UNCHANGED << prog, address, dbm_max, scan_time >>
  /\ UNCHANGED << argv, radio, scanning, subscriptions, scan_vars, devices, conn_vars,
                  interrupted >>

\* asyncio.run starts the coroutine: it prints its first lines and reaches
\* the await of scanner.start() / BleakScanner.discover.
Begin ==
  /\ pc = "start"
  /\ pc' = "starting"
  /\ out' = out \o banner(prog)
  /\ UNCHANGED << arg_vars, radio, scanning, subscriptions, scan_vars, devices, conn_vars,
                  exit_status, interrupted >>

\* scanner.start() / BleakScanner.discover: the radio starts scanning
StartScanOk ==
  /\ pc = "starting"
  /\ ~interrupted
  /\ radio' = "ok"
  /\ scanning' = TRUE
  /\ subscriptions' = subscriptions \cup scanners_of(prog)
  /\ pc' = "scanning"
  /\ UNCHANGED << arg_vars, scan_vars, devices, conn_vars, out,
                  exit_status, interrupted >>

\* scanner.start() / discover() raises: the radio is unavailable
StartScanFail ==
  /\ pc = "starting"
  /\ ~interrupted
  /\ radio' = "unavailable"
  /\ pc' = "failed"
  /\ UNCHANGED << arg_vars, scanning, subscriptions, scan_vars, devices, conn_vars, out,
                  exit_status, interrupted >>

\* The exception of the failed start travels up: get_device_info absorbs it
\* in its outer handler (lines 86-87) and returns; scan_ble_devices and
\* scan_and_disconnect_devices have no handler and end by raising it, which
\* ends the task with the exception set.
StartFailed ==
  /\ pc = "failed"
  /\ LET h == IF prog = "detail" THEN get_device_info_outer("Exception")
              ELSE [exc |-> "Exception", lines |-> << >>]
     IN IF on_return(h.exc) = "Exception"
        THEN /\ pc' = "raised"
             /\ UNCHANGED << out, exit_status >>
        ELSE TaskEnds(on_return(h.exc), h.lines)
  /\ UNCHANGED << arg_vars, radio, scanning, subscriptions, scan_vars, devices, conn_vars,
                  interrupted >>

\* asyncio.run closes the loop and raises the task's exception in main:
\* ble_scanner.main enters its `except Exception` handler (line 193),
\* disconnect_ble.main has none and the process ends.
RunRaises ==
  /\ pc = "raised"
  /\ IF in_try(prog, pc)
     THEN /\ pc' = "handler"
          /\ UNCHANGED << out, exit_status >>
     ELSE Terminate("Exception", << >>)
  /\ UNCHANGED << arg_vars, radio, scanning, subscriptions, scan_vars, devices, conn_vars,
                  interrupted >>

\* ble_scanner.py line 194: the handler prints the error
PrintError ==
  /\ pc = "handler"
  /\ out' = out \o main_exit(TRUE, "Exception").lines
  /\ pc' = "reported"
  /\ UNCHANGED << arg_vars, radio, scanning, subscriptions, scan_vars, devices, conn_vars,
                  exit_status, interrupted >>

\* ble_scanner.py line 195: sys.exit(1)
SysExit ==
  /\ pc = "reported"
  /\ pc' = "done"
  /\ exit_status' = main_exit(TRUE, "Exception").status
  /\ UNCHANGED << arg_vars, radio, scanning, subscriptions, scan_vars, devices, conn_vars,
                  out, interrupted >>

\* The callback still subscribed after scanner.stop(): an event arrives
\* once the scan is over.
Advertise_after_stop(ev) ==
  /\ pc \in { "scanning", "stopped", "cancelled" }
  /\ Len(events) < MaxEvents
  /\ events' = Append(events, ev)
  /\ IF prog = "detail"
     THEN /\ device_found' = locate_callback(device_found, ev, address)
          /\ UNCHANGED discovered_devices
     ELSE /\ discovered_devices' = (IF prog = "scan"
                                    THEN detection_callback(discovered_devices, ev)
                                    ELSE discover_callback(discovered_devices, ev))
          /\ UNCHANGED device_found
  /\ UNCHANGED << arg_vars, pc, radio, scanning, subscriptions, devices, conn_vars, out,
                  exit_status, interrupted >>

\* An advertisement event arrives and the event loop runs the detection
\* callback: while the task sleeps, a cancellation requested or not, and,
\* with the scan still active, while a cancelled task's end is processed.
Advertise(ev) ==
  /\ pc \in { "scanning", "cancelled" }
  /\ scanning
  /\ Len(events) < MaxEvents
  /\ events' = Append(events, ev)
  /\ IF prog = "detail"
     THEN /\ device_found' = locate_callback(device_found, ev, address)
          /\ UNCHANGED discovered_devices
     ELSE /\ discovered_devices' = (IF prog = "scan"
                                    THEN detection_callback(discovered_devices, ev)
                                    ELSE discover_callback(discovered_devices, ev))
          /\ UNCHANGED device_found
  /\ UNCHANGED << arg_vars, pc, radio, scanning, subscriptions, devices, conn_vars, out,
                  exit_status, interrupted >>

\* The sleep elapses and the flow goes on without scanner.stop().
StopScan_keeps_scanning ==
  /\ pc = "scanning"
  /\ ~interrupted
  /\ pc' = "stopped"
  /\ devices' = (IF prog = "bulk" THEN discovered_devices ELSE devices)
  /\ UNCHANGED << arg_vars, radio, scanning, subscriptions, scan_vars, conn_vars, out,
                  exit_status, interrupted >>

\* The sleep elapses: scanner.stop(); discover() returns its list.
StopScan ==
  /\ pc = "scanning"
  /\ ~interrupted
  /\ scanning' = FALSE
  /\ subscriptions' = subscriptions \ scanners_of(prog)
  /\ pc' = "stopped"
  /\ devices' = (IF prog = "bulk" THEN discovered_devices ELSE devices)
  /\ UNCHANGED << arg_vars, radio, scan_vars, conn_vars, out,
                  exit_status, interrupted >>

\* The report filtering the collected dict in place.
Report_in_place ==
  /\ pc = "stopped"
  /\ prog = "scan"
  /\ TaskEnds(on_return("none"), report(discovered_devices, dbm_max))
  /\ discovered_devices' = filter_devices(discovered_devices, dbm_max)
  /\ UNCHANGED << arg_vars, radio, scanning, subscriptions, events, device_found, devices,
                  conn_vars, interrupted >>

\* scan_ble_devices lines 112-146, then main returns
Report ==
  /\ pc = "stopped"
  /\ prog = "scan"
  /\ TaskEnds(on_return("none"), report(discovered_devices, dbm_max))
  /\ UNCHANGED << arg_vars, radio, scanning, subscriptions, scan_vars, devices, conn_vars,
                  interrupted >>

\* ------------------------------------------------------- the detail lookup
\* get_device_info lines 27-59 with the `return` of line 29 missing: the
\* flow goes on to the connection after reporting not found
Lookup_no_return ==
  /\ pc = "stopped"
  /\ prog = "detail"
  /\ out' = out \o (IF device_found = <<>>
                     THEN << Line("not found during scan", address, "", 0) >>
                     ELSE << >>)
                \o << Msg("BASIC DEVICE INFORMATION"), Msg("ATTEMPTING CONNECTION") >>
  /\ pc' = "connecting"
  /\ idx' = 1
  /\ dev_state' = << "Connecting" >>
  /\ faults' = << "none" >>
  /\ trees' = << << >> >>
  /\ UNCHANGED exit_status
  /\ UNCHANGED << arg_vars, radio, scanning, subscriptions, scan_vars, devices,
                  session_open, is_connected, walks, interrupted >>

\* get_device_info lines 27-59
Lookup ==
  /\ pc = "stopped"
  /\ prog = "detail"
  /\ IF device_found = <<>>
     THEN /\ TaskEnds(on_return("none"),
                      << Line("not found during scan", address, "", 0) >>)
          /\ UNCHANGED << idx, dev_state, faults, trees >>
     ELSE /\ out' = out \o << Msg("BASIC DEVICE INFORMATION"),
                              Line("Name:", <<>>, OrUnknown(device_found[1].name), 0),
                              Line("Address:", device_found[1].address, "", 0),
                              Msg("ADVERTISEMENT DATA"),
                              Line("RSSI:", <<>>, "", device_found[1].rssi),
                              Msg("ATTEMPTING CONNECTION") >>
          /\ pc' = "connecting"
          /\ idx' = 1
          /\ dev_state' = << "Connecting" >>
          /\ faults' = << "none" >>
          /\ trees' = << << >> >>
          /\ UNCHANGED exit_status
  /\ UNCHANGED << arg_vars, radio, scanning, subscriptions, scan_vars, devices,
                  session_open, is_connected, walks, interrupted >>

\* ------------------------------------------------------------ the bulk pass
\* a pass that opens the connections to all devices at once
loop_start_all(n) == [i \in 1..n |-> "Connecting"]

\* disconnect_ble.py line 17: the loop takes the first device; the others
\* wait their turn
loop_start(n) == [i \in 1..n |-> IF i = 1 THEN "Connecting" ELSE "Idle"]

\* scan_and_disconnect_devices lines 11-18
ListDevices ==
  /\ pc = "stopped"
  /\ prog = "bulk"
  /\ IF devices = <<>>
     THEN /\ TaskEnds(on_return("none"), << Msg("No BLE devices found") >>)
          /\ UNCHANGED << idx, dev_state, faults, trees >>
     ELSE /\ out' = out \o << Line("Found", <<>>, "", Len(devices)), DeviceHeader(devices[1]) >>
          /\ pc' = "connecting"
          /\ idx' = 1
          /\ dev_state' = loop_start(Len(devices))
          /\ faults' = [i \in DOMAIN devices |-> "none"]
          /\ trees' = [i \in DOMAIN devices |-> << >>]
          /\ UNCHANGED exit_status
  /\ UNCHANGED << arg_vars, radio, scanning, subscriptions, scan_vars, devices,
                  session_open, is_connected, walks, interrupted >>

\* The address handed to BleakClient for the current device.
Target == IF prog = "detail" THEN address ELSE devices[idx].address

\* The bulk loop moves on after printing `lines`: to device nxt (its header
\* is printed and its connection awaited), or returns when nxt = 0.
BulkAdvance(nxt, lines) ==
  IF nxt = 0
  THEN /\ TaskEnds(on_return("none"), lines)
       /\ UNCHANGED << idx, dev_state >>
  ELSE /\ pc' = "connecting"
       /\ idx' = nxt
       /\ dev_state' = [dev_state EXCEPT ![nxt] = "Connecting"]
       /\ out' = out \o lines \o << DeviceHeader(devices[nxt]) >>
       /\ UNCHANGED exit_status

\* The per-device failure handlers: get_device_info lines 82-84 (print and
\* return), scan_and_disconnect_devices lines 35-38 (print the exception's
\* text, a blank line, and go on).
DeviceFailed ==
  IF prog = "detail"
  THEN /\ TaskEnds(on_return("none"), << Msg("Connection failed"), Msg("This is normal") >>)
       /\ UNCHANGED << idx, dev_state >>
  ELSE BulkAdvance(on_device_exception(idx, Len(devices)),
                   << Msg("Skipping"), Msg("") >>)

\* `async with BleakClient(...)` is entered: connect() returned, and
\* client.is_connected reads c.  The link may already be down when the block
\* is entered: get_device_info provides for it (lines 62, 79-80), while
\* scan_and_disconnect_devices only prints the value (line 23).
ConnectOk(c) ==
  /\ pc = "connecting"
  /\ ~interrupted
  /\ session_open' = TRUE
  /\ is_connected' = c
  /\ dev_state' = [dev_state EXCEPT ![idx] = "Connected"]
  /\ IF prog = "detail"
     THEN IF c
          THEN /\ out' = out \o << Msg("Successfully connected") >>
               /\ pc' = "connected"
          ELSE /\ out' = out \o << Msg("Failed to connect") >>
               /\ pc' = "exiting"
     ELSE /\ out' = out \o << Line("Connected:", <<>>, IF c THEN "True" ELSE "False", 0) >>
          /\ pc' = "connected"
  /\ UNCHANGED << arg_vars, radio, scanning, subscriptions, scan_vars, devices, idx,
                  faults, trees, walks, exit_status, interrupted >>

\* connect() raises (timeout, refusal, protocol error): the block is never
\* entered and the exception reaches the handler of the device.
ConnectFail ==
  /\ pc = "connecting"
  /\ ~interrupted
  /\ faults' = [faults EXCEPT ![idx] = "connect"]
  /\ dev_state' = [dev_state EXCEPT ![idx] = "ConnectFailed"]
  /\ pc' = "closed"
  /\ UNCHANGED << arg_vars, radio, scanning, subscriptions, scan_vars, devices, idx,
                  session_open, is_connected, trees, walks, out, exit_status, interrupted >>

\* The line printed ahead of the services: ble_scanner.py line 65,
\* disconnect_ble.py line 26.
walk_header(p, ss) ==
  IF p = "detail" THEN << Msg("SERVICES AND CHARACTERISTICS") >>
  ELSE << Line("Services found:", <<>>, "", Len(ss)) >>

\* The number of times the walk reads client.services: once in
\* get_device_info (line 67), twice in scan_and_disconnect_devices (len() in
\* line 26, the loop of line 27).
services_reads(p) == IF p = "detail" THEN 1 ELSE 2

\* The lines already printed when read number r of client.services raises:
\* get_device_info prints its header (line 65) before its only read;
\* scan_and_disconnect_devices prints the count with the value of its first
\* read, so the line is there only when the second read is the one to fail.
printed_before_read(p, r, ss) ==
  IF p = "detail" \/ r = 2 THEN walk_header(p, ss) ELSE << >>

\* The walk over client.services: ble_scanner.py lines 65-78,
\* disconnect_ble.py lines 26-32.  It has no suspension point.
WalkServices ==
  /\ pc = "connected"
  /\ walks' = Append(walks, is_connected)
  /\ LET ss == GattServices(Target)
         tree == walk_header(prog, ss) \o walk_services(ss, prog = "detail")
     IN /\ trees' = [trees EXCEPT ![idx] = tree]
        /\ out' = out \o tree
                  \o (IF prog = "detail" THEN << >>
                      ELSE << Line("Disconnected from", Target, "", 0) >>)
  /\ pc' = "exiting"
  /\ UNCHANGED << arg_vars, radio, scanning, subscriptions, scan_vars, devices, idx,
                  session_open, is_connected, dev_state, faults, exit_status, interrupted >>

\* Read number r of client.services raises (the services were not resolved,
\* the link dropped): no service is printed and the exception leaves the
\* `async with` block, whose __aexit__ is awaited before any handler runs.
EnumFail(r) ==
  /\ pc = "connected"
  /\ r \in 1..services_reads(prog)
  /\ faults' = [faults EXCEPT ![idx] = "enumerate"]
  /\ LET printed == printed_before_read(prog, r, GattServices(Target))
     IN /\ trees' = [trees EXCEPT ![idx] = printed]
        /\ out' = out \o printed
  /\ pc' = "exiting"
  /\ UNCHANGED << arg_vars, radio, scanning, subscriptions, scan_vars, devices, idx,
                  session_open, is_connected, dev_state, walks, exit_status, interrupted >>

\* How the `async with` block of the current device is being left.
leaving == IF faults[idx] = "enumerate" THEN "exception" ELSE "normal"

\* A disconnect that never completes.
Disconnect_never ==
  /\ pc = "exiting"
  /\ FALSE
  /\ UNCHANGED vars

\* BleakClient.__aexit__ completes: the block is left, by its end or by the
\* exception raised in it.
Disconnect ==
  /\ pc = "exiting"
  /\ ~interrupted
  /\ session_open' = aexit(leaving, session_open)
  /\ is_connected' = aexit(leaving, is_connected)
  /\ dev_state' = [dev_state EXCEPT ![idx] =
                     IF aexit(leaving, session_open) THEN "Connected" ELSE "Disconnected"]
  /\ pc' = "closed"
  /\ UNCHANGED << arg_vars, radio, scanning, subscriptions, scan_vars, devices, idx,
                  faults, trees, walks, out, exit_status, interrupted >>

\* After the block: the handler of the device's exception if one was raised
\* (ble_scanner.py 82-84, disconnect_ble.py 35-36), the blank line and the
\* next device of the bulk loop (disconnect_ble.py 38, 17-18), or the return
\* of the coroutine.
Advance ==
  /\ pc = "closed"
  /\ IF faults[idx] # "none"
     THEN DeviceFailed
     ELSE IF prog = "detail"
          THEN /\ TaskEnds(on_return("none"), << >>)
               /\ UNCHANGED << idx, dev_state >>
          ELSE BulkAdvance(for_next(idx, Len(devices)), << Msg("") >>)
  /\ UNCHANGED << arg_vars, radio, scanning, subscriptions, scan_vars, devices,
                  session_open, is_connected, faults, trees, walks, interrupted >>

\* ------------------------------------------------------ operator interrupt
\* SIGINT.  In main's own code KeyboardInterrupt is raised at once (the
\* default handler before asyncio.run; the handler of asyncio.run once the
\* task is done).  While the task runs, the handler of asyncio.run requests
\* its cancellation and returns to the event loop: the task, callbacks
\* already queued and synchronous code go on until the cancellation is
\* delivered.
Interrupt ==
  /\ pc \notin { "done", "cancelled" }
  /\ ~interrupted
  /\ interrupted' = TRUE
  /\ IF pc \in MainPcs
     THEN Terminate("KeyboardInterrupt", << >>)
     ELSE UNCHANGED << pc, out, exit_status >>
  /\ UNCHANGED << arg_vars, radio, scanning, subscriptions, scan_vars, devices, conn_vars >>

\* CancelledError is raised in the coroutine at its await: the stack unwinds
\* through the active scan and any `async with` being entered or left
\* (`except Exception` does not catch it), and the task ends cancelled.
Unwind ==
  /\ scanning' = scan_after_unwind(prog, scanning)
  /\ subscriptions' = (IF scan_after_unwind(prog, scanning) THEN subscriptions ELSE {})
  /\ session_open' = aexit("cancel", session_open)
  /\ is_connected' = aexit("cancel", is_connected)
  /\ dev_state' = IF session_open /\ ~aexit("cancel", session_open)
                  THEN [dev_state EXCEPT ![idx] = "Disconnected"]
                  ELSE dev_state
  /\ LET h == IF prog = "detail" THEN get_device_info_outer("KeyboardInterrupt")
              ELSE [exc |-> "KeyboardInterrupt", lines |-> << >>]
     IN TaskEnds(h.exc, h.lines)
  /\ UNCHANGED << arg_vars, radio, scan_vars, devices, idx, faults, trees, walks >>

\* The requested cancellation is delivered at the await the task is
\* suspended in, or reaches next.
Cancel ==
  /\ interrupted
  /\ pc \in AwaitPcs
  /\ Unwind
  /\ UNCHANGED interrupted

\* The cancelled task is done: asyncio.run closes the loop and raises
\* KeyboardInterrupt in main.
RunInterrupted ==
  /\ pc = "cancelled"
  /\ Terminate("KeyboardInterrupt", << >>)
  /\ UNCHANGED << arg_vars, radio, scanning, subscriptions, scan_vars, devices, conn_vars,
                  interrupted >>

Next ==
  \/ ParseArgs
  \/ Begin
  \/ StartScanOk
  \/ StartScanFail
  \/ StartFailed
  \/ RunRaises
  \/ PrintError
  \/ SysExit
  \/ \E ev \in EventsOf(prog) : Advertise(ev)
  \/ StopScan
  \/ Report
  \/ Lookup
  \/ ListDevices
  \/ \E c \in BOOLEAN : ConnectOk(c)
  \/ ConnectFail
  \/ WalkServices
  \/ \E r \in 1..2 : EnumFail(r)
  \/ Disconnect
  \/ Advance
  \/ Interrupt
  \/ Cancel
  \/ RunInterrupted

Spec == Init /\ [][Next]_vars

\* The steps of the program itself.  Each wait it makes is bounded
\* (asyncio.sleep(scan_time), sleep(10), discover(timeout=5.0), the connect
\* timeout of BleakClient), so a step that is due is eventually taken.
ProgramStep ==
  \/ ParseArgs
  \/ Begin
  \/ StartScanOk
  \/ StartScanFail
  \/ StartFailed
  \/ RunRaises
  \/ PrintError
  \/ SysExit
  \/ StopScan
  \/ Report
  \/ Lookup
  \/ ListDevices
  \/ \E c \in BOOLEAN : ConnectOk(c)
  \/ ConnectFail
  \/ WalkServices
  \/ \E r \in 1..2 : EnumFail(r)
  \/ Disconnect
  \/ Advance
  \/ Cancel
  \/ RunInterrupted

FairSpec == Init /\ [][Next]_vars /\ WF_vars(ProgramStep)

TypeOK ==
  /\ prog \in { "cli", "scan", "detail", "bulk" }
  /\ argv \in Argvs
  /\ pc \in { "parse", "start", "starting", "failed", "raised", "handler", "reported",
              "scanning", "stopped", "connecting", "connected", "exiting", "closed",
              "cancelled", "done" }
  /\ radio \in { "unknown", "ok", "unavailable" }
  /\ exit_status \in { "running", "0", "1", "2", "SIGINT" }
  /\ scanning \in BOOLEAN /\ session_open \in BOOLEAN /\ is_connected \in BOOLEAN
  /\ Len(events) <= MaxEvents
  /\ (pc = "done") <=> (exit_status # "running")
  /\ pc \in { "parse", "start" } => ~interrupted
  /\ pc = "cancelled" => interrupted

\* ================================================================ properties
HasMsg(m) == \E i \in DOMAIN out : out[i].msg = m

\* The run completed its scan without interrupt or radio failure.
ScanReported == prog = "scan" /\ pc = "done" /\ ~interrupted /\ radio = "ok"

ReportedDevices == { out[i] : i \in { j \in DOMAIN out : out[j].msg = "Device" } }

Passing == { i \in DOMAIN discovered_devices : discovered_devices[i].rssi > dbm_max }

\* C1: the bulk scan report lists exactly the collected devices whose last
\* recorded RSSI is strictly greater than the threshold; a device at the
\* threshold is not listed and no stronger device is omitted.
Thm_C1 ==
  ScanReported =>
    /\ \A i \in DOMAIN discovered_devices :
         LET d == discovered_devices[i] IN
         (d.rssi > dbm_max) <=> (Line("Device", d.address, d.name, d.rssi) \in ReportedDevices)
    /\ \A l \in ReportedDevices :
         \E i \in Passing : discovered_devices[i].address = l.addr

Wit_C1 ==
  /\ ScanReported
  /\ \E i, j \in DOMAIN discovered_devices :
       /\ discovered_devices[i].rssi = dbm_max
       /\ discovered_devices[j].rssi > dbm_max
       /\ \E l \in ReportedDevices : l.addr = discovered_devices[j].address

\* Index of the last event of the stream carrying address a.
LastEventFor(a) ==
  CHOOSE k \in DOMAIN events :
    /\ events[k].address = a
    /\ \A m \in DOMAIN events : events[m].address = a => m <= k

MatchingEvents == { k \in DOMAIN events : Lower(events[k].address) = Lower(address) }

\* C2: the collected set holds one entry per identity, and each entry is the
\* record of the last event received for that identity (no field survives
\* from an earlier event); the targeted lookup holds the last matching
\* advertisement.
Thm_C2 ==
  /\ prog = "scan" =>
       /\ \A i, j \in DOMAIN discovered_devices :
            discovered_devices[i].address = discovered_devices[j].address => i = j
       /\ \A k \in DOMAIN events : HasKey(discovered_devices, events[k].address)
       /\ \A i \in DOMAIN discovered_devices :
            LET a == discovered_devices[i].address IN
            /\ \E k \in DOMAIN events : events[k].address = a
            /\ discovered_devices[i] =
                 [address |-> a,
                  name |-> OrUnknown(events[LastEventFor(a)].name),
                  rssi |-> events[LastEventFor(a)].rssi]
  /\ prog = "detail" =>
       device_found = IF MatchingEvents = {} THEN << >>
                      ELSE << events[CHOOSE k \in MatchingEvents :
                                       \A m \in MatchingEvents : m <= k] >>

Wit_C2 ==
  /\ prog = "scan"
  /\ Len(events) = 2
  /\ events[1].address = events[2].address
  /\ events[1].rssi # events[2].rssi
  /\ events[1].name = "Tag" /\ events[2].name = "None"
  /\ Len(discovered_devices) = 1
  /\ discovered_devices[1].name = "Unknown"

\* C3: a connection that was opened is disconnected on every way out of the
\* connected block (end of the walk, exception during enumeration,
\* interrupt): outside the block no session is open and the client is not
\* connected, and every device before the current one is Disconnected or
\* ConnectFailed.
Thm_C3 ==
  /\ pc \notin { "connected", "exiting" } => ~session_open /\ ~is_connected
  /\ \A i \in DOMAIN dev_state :
       (i < idx \/ pc = "done") => dev_state[i] # "Connected"

Wit_C3 ==
  /\ ~interrupted
  /\ pc \in { "connecting", "done" }
  /\ \E i \in DOMAIN faults : faults[i] = "enumerate" /\ dev_state[i] = "Disconnected"
  /\ ~session_open

\* A line of a service tree.
IsTreeLine(l) == l.msg \in { "Service", "Characteristic", "Descriptor" }

\* C4: in the bulk pass a device whose connection or enumeration failed has
\* no service, characteristic or descriptor line printed for it, and the
\* pass goes on: when the pass returns, every device of the list has had its
\* connection attempt.
Thm_C4 ==
  prog = "bulk" =>
    /\ \A i \in DOMAIN faults :
         faults[i] # "none" => SelectSeq(trees[i], IsTreeLine) = << >>
    /\ \A i \in DOMAIN dev_state : i < idx => dev_state[i] \in { "Disconnected", "ConnectFailed" }
    /\ (pc = "done" /\ ~interrupted /\ radio = "ok") =>
         \A i \in DOMAIN devices : dev_state[i] \in { "Disconnected", "ConnectFailed" }

Wit_C4 ==
  /\ prog = "bulk" /\ pc = "done" /\ ~interrupted
  /\ Len(devices) = 2
  /\ faults[1] = "enumerate" /\ trees[1] # << >>
  /\ Lower(devices[1].address) = << "a", "1" >>
  /\ faults[2] = "none" /\ dev_state[2] = "Disconnected" /\ Len(trees[2]) > 1

\* C5: no terminated state has a scan still active or a connection still
\* open.
Cex_C5 == pc = "done" => ~scanning /\ ~session_open

\* C6: an interrupted run ends with the acknowledgement line and exit
\* status 0 in every entry point.
Cex_C6 ==
  (interrupted /\ pc = "done") =>
    exit_status = "0" /\ HasMsg("Scan interrupted by user")

\* C7: when the radio is unavailable a run that was not interrupted never
\* ends with exit status 0.
Cex_C7 == (radio = "unavailable" /\ pc = "done" /\ ~interrupted) => exit_status # "0"

\* C8: an empty scan reports "No BLE devices found." and never a "Found"
\* summary; a non-empty scan with no device above the threshold reports the
\* filtered-out line instead; the two reports differ.
Thm_C8 ==
  ScanReported =>
    /\ discovered_devices = << >> =>
         /\ HasMsg("No BLE devices found.")
         /\ ~HasMsg("Found")
         /\ ~HasMsg("No BLE devices found with RSSI >")
    /\ (discovered_devices # << >> /\ Passing = {}) =>
         /\ HasMsg("No BLE devices found with RSSI >")
         /\ ~HasMsg("Found")
         /\ ~HasMsg("No BLE devices found.")

Wit_C8 ==
  /\ ScanReported
  /\ discovered_devices # << >>
  /\ Passing = {}
  /\ \E i \in DOMAIN discovered_devices : discovered_devices[i].rssi = dbm_max

\* Two addresses that differ at most in letter case.
SameUpToCase(a, b) ==
  /\ Len(a) = Len(b)
  /\ \A i \in DOMAIN a :
       \/ a[i] = b[i]
       \/ << a[i], b[i] >> \in UpperLower
       \/ << b[i], a[i] >> \in UpperLower

\* C9: the targeted lookup resolves every spelling of the requested address
\* that differs only in letter case to the same record (or to not-found),
\* whatever case the advertised address uses.
Thm_C9 ==
  prog = "detail" =>
    \A a2 \in RequestAddrs :
      SameUpToCase(a2, address) => Locate(events, a2) = device_found

Wit_C9 ==
  /\ prog = "detail"
  /\ pc = "stopped"
  /\ device_found # << >>
  /\ device_found[1].address # address
  /\ \E a2 \in RequestAddrs : a2 # address /\ SameUpToCase(a2, address)

\* C10: every service walk starts with client.is_connected true.
Cex_C10 == \A i \in DOMAIN walks : walks[i]

OpenOrOpening == { i \in DOMAIN dev_state : dev_state[i] \in { "Connecting", "Connected" } }

\* C11: the bulk pass is strictly sequential: at most one connection is open
\* or being opened, and a device's attempt has started only when every
\* device before it is Disconnected or ConnectFailed.
Thm_C11 ==
  prog = "bulk" =>
    /\ Cardinality(OpenOrOpening) <= 1
    /\ \A i \in DOMAIN dev_state :
         dev_state[i] # "Idle" =>
           \A j \in 1..(i - 1) : dev_state[j] \in { "Disconnected", "ConnectFailed" }

Wit_C11 ==
  /\ prog = "bulk"
  /\ Len(devices) = 2
  /\ dev_state = << "Disconnected", "Connected" >>
  /\ session_open

\* C12: when no advertisement of the scan matches the requested address,
\* the detail flow prints the not-found line and ends with status 0: no
\* connection is attempted and no device information is printed.
Thm_C12 ==
  (prog = "detail" /\ pc \notin { "start", "starting", "scanning" } /\ ~interrupted
     /\ radio = "ok" /\ MatchingEvents = {}) =>
    /\ pc \in { "stopped", "done" }
    /\ dev_state = << >>
    /\ ~session_open
    /\ ~HasMsg("BASIC DEVICE INFORMATION")
    /\ ~HasMsg("ATTEMPTING CONNECTION")
    /\ pc = "done" => (exit_status = "0" /\ HasMsg("not found during scan"))

Wit_C12 ==
  /\ prog = "detail" /\ pc = "done" /\ ~interrupted /\ radio = "ok"
  /\ events # << >>
  /\ MatchingEvents = {}
  /\ HasMsg("not found during scan")

\* The order in which a tree is to be visited, written from the last element
\* backwards: services, each followed by its characteristics, each followed
\* (depth 3) by its descriptors.
RECURSIVE CharacteristicOrder(_, _)
CharacteristicOrder(cs, depth) ==
  IF cs = << >> THEN << >>
  ELSE LET n == Len(cs) IN
       CharacteristicOrder(SubSeq(cs, 1, n - 1), depth)
       \o << Line("Characteristic", <<>>, cs[n].uuid, 0) >>
       \o (IF depth >= 3
           THEN [k \in 1..Len(cs[n].descriptors) |->
                   Line("Descriptor", <<>>, cs[n].descriptors[k], 0)]
           ELSE << >>)

RECURSIVE ServiceOrder(_, _)
ServiceOrder(ss, depth) ==
  IF ss = << >> THEN << >>
  ELSE LET n == Len(ss) IN
       ServiceOrder(SubSeq(ss, 1, n - 1), depth)
       \o << Line("Service", <<>>, ss[n].uuid, 0) >>
       \o CharacteristicOrder(ss[n].characteristics, depth)

\* The address of device i of the pass.
DeviceAddr(i) == IF prog = "detail" THEN address ELSE devices[i].address

\* C13: both walkers visit every service, every characteristic of each
\* service and every descriptor of each characteristic of a connected device,
\* in the stack's order, with nothing skipped, reordered or deduplicated.
Cex_C13 ==
  \A i \in DOMAIN trees :
    (trees[i] # << >> /\ faults[i] = "none") =>
      Tail(trees[i]) = ServiceOrder(GattServices(DeviceAddr(i)), 3)

\* C14: in an uninterrupted run the scan is stopped and no subscription is
\* left once the sleep is over, whatever number of events arrived, hence
\* before the collected set is looked at; and the collected set changes only
\* while the scan is active.
Thm_C14 ==
  [][ /\ (~interrupted' /\ radio' = "ok"
            /\ pc' \notin { "parse", "start", "starting", "scanning" })
           => (~scanning' /\ subscriptions' = {})
      /\ (discovered_devices' # discovered_devices \/ device_found' # device_found
            \/ events' # events)
           => (scanning /\ scanning')
      /\ (out' # out /\ pc = "stopped") => ~scanning ]_vars

Wit_C14 ==
  /\ pc = "stopped"
  /\ events = << >>
  /\ ~scanning
  /\ subscriptions = {}

AllDevicesFinal ==
  \A i \in DOMAIN devices : dev_state[i] \in { "Disconnected", "ConnectFailed" }

\* C15: every run terminates, and a bulk pass that was not interrupted ends
\* with every device Disconnected or ConnectFailed.
Thm_C15 ==
  <>(/\ pc = "done"
     /\ (prog = "bulk" /\ ~interrupted /\ radio = "ok") => AllDevicesFinal)

Wit_C15 ==
  /\ prog = "bulk" /\ pc = "done" /\ ~interrupted /\ exit_status = "0"
  /\ Len(events) = MaxEvents
  /\ Len(devices) = 2
  /\ faults = << "enumerate", "connect" >>
  /\ AllDevicesFinal

\* C16: the report leaves the collected set as it was, and applying the
\* filter and report again to the set it leaves gives the lines it printed.
Thm_C16 ==
  [][ (prog = "scan" /\ pc = "stopped" /\ pc' = "done" /\ ~interrupted') =>
        /\ discovered_devices' = discovered_devices
        /\ SubSeq(out', Len(out) + 1, Len(out')) = report(discovered_devices', dbm_max') ]_vars

Wit_C16 ==
  /\ ScanReported
  /\ Len(discovered_devices) = 2
  /\ Cardinality(Passing) = 1
  /\ HasMsg("Found")

\* C17: at most one scan subscription is active in any state, never the
\* collector's and the locator's together, and the radio scans exactly
\* while a subscription is active.
Thm_C17 ==
  /\ Cardinality(subscriptions) <= 1
  /\ ~({ "collector", "locator" } \subseteq subscriptions)
  /\ scanning <=> (subscriptions # {})

Wit_C17 ==
  /\ subscriptions = { "locator" }
  /\ pc = "scanning"
  /\ events # << >>

\* C18: every command line without --address runs the bulk scan, with the
\* given or default scan time and threshold, whether --scan-time,
\* --dbm-max, both or neither are given.
Cex_C18 ==
  (prog # "bulk" /\ pc # "parse" /\ ~interrupted /\ "address" \notin argv.given) =>
    /\ exit_status # "2"
    /\ prog = "scan"
    /\ scan_time = argv.scan_time
    /\ dbm_max = argv.dbm_max

\* C19: while a connection is open or being opened no scan is active: the
\* first connection attempt follows the end of the scan.
Thm_C19 ==
  (session_open \/ OpenOrOpening # {}
     \/ pc \in { "connecting", "connected", "exiting", "closed" })
    => (~scanning /\ subscriptions = {})

Wit_C19 ==
  /\ prog = "detail"
  /\ pc = "connected"
  /\ session_open
  /\ ~scanning
  /\ Len(events) >= 2

IsDeviceLine(l) == l.msg = "Device"

\* Index of the first event of the stream carrying address a.
FirstSeen(a) ==
  CHOOSE k \in DOMAIN events :
    /\ events[k].address = a
    /\ \A m \in 1..(k - 1) : events[m].address # a

\* C20: the collected set and the report list the devices in the order in
\* which each address was first seen; a later advertisement of an address
\* already seen does not move it.
Thm_C20 ==
  prog = "scan" =>
    /\ \A i, j \in DOMAIN discovered_devices :
         i < j => FirstSeen(discovered_devices[i].address)
                    < FirstSeen(discovered_devices[j].address)
    /\ ScanReported =>
         LET r == SelectSeq(out, IsDeviceLine) IN
         \A i, j \in DOMAIN r : i < j => FirstSeen(r[i].addr) < FirstSeen(r[j].addr)

Wit_C20 ==
  /\ ScanReported
  /\ Len(events) = 3
  /\ events[1].address = events[3].address
  /\ events[1].address # events[2].address
  /\ events[1].rssi # events[3].rssi
  /\ Len(SelectSeq(out, IsDeviceLine)) = 2

====
